---- MODULE Spec2Model ----
(***************************************************************************)
(* Transaction and price-update engine of the trading backend (the express *)
(* server with its mongoose models, the POST /api/transaction handler,     *)
(* updateCoinPrice and the setInterval price simulator).                   *)
(*                                                                         *)
(* Number representation.  JavaScript Numbers are modelled in fixed point: *)
(*   - money (balance, totalPrice) in units of 1/MoneyScale currency;      *)
(*   - quantities (amount, holdings) in lots of LotSize coins;             *)
(*   - prices in money units per lot.                                      *)
(* amount * price is then an exact integer product, and the two price      *)
(* multipliers (1 +- 0.00001*amount and 1 + change) are exact rationals    *)
(* applied with MulDiv (rounded down to the price resolution).             *)
(*                                                                         *)
(* Store.  The document store is MongoDB through mongoose.  A handler's    *)
(* session transaction reads a snapshot taken at its first read, keeps its *)
(* writes pending until commitTransaction, and a write inside it fails     *)
(* with a WriteConflict when the document was written after the snapshot   *)
(* or carries another open transaction's pending write.  A write outside   *)
(* any transaction (the simulator's coin.save()) waits for an open         *)
(* transaction's pending write on the same document and is then applied.   *)
(*                                                                         *)
(* Output.  sent holds what the last step sent out of the server: the      *)
(* socket.io events it emitted and the HTTP response it gave, in order.    *)
(*                                                                         *)
(* Clients.  clients holds the browser tabs showing the dashboard or the   *)
(* marketplace page: the React state (user, coins) of the page and its     *)
(* socket.  A JavaScript object is a record; a field that is absent and a  *)
(* field that holds undefined read the same and are both modelled by the   *)
(* absence of the field.  An emitted event is handled by the connected     *)
(* clients in the step that emits it.                                      *)
(*                                                                         *)
(* Time.  clock is the server's clock in logical units: new Date() reads   *)
(* it, and it has advanced between two reads.                              *)
(***************************************************************************)
EXTENDS Integers, Sequences, FiniteSets, TLC

VARIABLES users, coins, txlog, req, tick, budget, nticks, applied, serial,
          sent, signups, nsignups, clock, clients

vars == <<users, coins, txlog, req, tick, budget, nticks, applied, serial,
          sent, signups, nsignups, clock, clients>>

----------------------------------------------------------------------------
(* Bounds of the model *)

\* concurrent request handlers of POST /api/transaction
MaxSlots == 2
\* transaction requests received in one behaviour of Spec
MaxRequests == 2
\* transaction requests received in one behaviour of SpecTrades
MaxTradeRequests == 4
\* signup requests received in one behaviour of Spec
MaxSignups == 2
\* signup requests received in one behaviour of SpecTrades
MaxTradeSignups == 1
\* transaction requests received in one behaviour of SpecReads
MaxReadRequests == 2
\* transaction requests received in one behaviour of SpecLog
MaxLogRequests == 2
\* browser tabs
MaxClients == 2
\* transaction requests received in one behaviour of SpecClients
MaxClientRequests == 2
\* transaction requests, signups and ticks in one behaviour of SpecFrame
MaxFrameRequests == 2
MaxFrameSignups == 2
MaxFrameTicks == 1
\* transaction requests received in one behaviour of SpecLive
MaxLiveRequests == 2
\* simulator ticks started in one behaviour of Spec
MaxTicks == 1
\* simulator ticks started in one behaviour of SpecWindow
MaxWindowTicks == 2
\* largest holding (in lots) to which a buy with a string amount is added
MaxHolding == 20000

----------------------------------------------------------------------------
(* Program constants and representation *)

\* money units per unit of currency
MoneyScale == 10000
\* coins per lot
LotSize == 1000
\* 0.00001 = 1 / ImpactPerCoinDenom
ImpactPerCoinDenom == 100000
\* price impact of one lot is 1 / ImpactDenom
ImpactDenom == ImpactPerCoinDenom \div LotSize
\* balance: 10000 at signup
StartBalance == 10000 * MoneyScale
\* Transaction.find(...).limit(5)
PageSize == 5
\* priceHistory.length > 1440
HistoryWindow == 1440
\* generatePriceFluctuation: (Math.random() * 0.6 - 0.3) / 100, in 1/DriftDenom
DriftDenom == 1000
\* the largest fluctuation, 0.3 percent, in 1/DriftDenom
MaxDrift == 3
Drifts == {-3, 2}

UserIds == {"u1", "u2"}
\* the usernames and the password of the signup requests
Usernames == <<"ann", "bob">>
Password == "pw"
NameSet == {Usernames[i] : i \in 1..Len(Usernames)}
Symbols == {"ZRX", "MNT"}
\* the order in which Coin.find() returns the coins
CoinOrder == <<"ZRX", "MNT">>
\* prices per lot of the stored coins when the behaviour starts (0.02 and
\* 0.05 currency per coin: coins whose price has drifted low)
InitPrice == [ZRX |-> 20 * MoneyScale, MNT |-> 50 * MoneyScale]

\* request bodies {coinId, type, amount}: the amount is a JSON number of n
\* lots, or (str) a JSON string holding that number in decimal digits
CoinIds == Symbols \cup {"DOGE"}
Types == {"buy", "sell", "swap"}
Amounts == {[n |-> 0, str |-> FALSE], [n |-> -50, str |-> FALSE],
            [n |-> 50, str |-> FALSE], [n |-> 200, str |-> FALSE],
            [n |-> 50, str |-> TRUE]}
Slots == 1..MaxSlots

----------------------------------------------------------------------------
(* Arithmetic *)

RECURSIVE Digits(_)
\* the number of decimal digits of x >= 0
Digits(x) == IF x < 10 THEN 1 ELSE 1 + Digits(x \div 10)

RECURSIVE Pow10(_)
Pow10(d) == IF d = 0 THEN 1 ELSE 10 * Pow10(d - 1)

\* Number(amount): what *, -, < and <= make of the amount
Num(amount) == amount.n

\* cur + amount in JavaScript: the sum of two numbers, the concatenation of
\* the digits of cur (a number of coins) and of the string otherwise, which
\* the Number cast of the holdings map then reads as a number
JsPlus(cur, amount) ==
  IF amount.str
  THEN cur * Pow10(Digits(amount.n * LotSize)) + amount.n
  ELSE cur + amount.n

\* floor(p * num / den) without an intermediate product beyond 32 bits
MulDiv(p, num, den) == (p \div den) * num + ((p % den) * num) \div den

\* coin.price * multiplier, multiplier = 1 + priceImpact or 1 - priceImpact
ImpactNum(type, amount) ==
  IF type = "buy" THEN ImpactDenom + Num(amount) ELSE ImpactDenom - Num(amount)

ImpactedPrice(price, type, amount) ==
  MulDiv(price, ImpactNum(type, amount), ImpactDenom)

\* coin.price * (1 + priceChange)
DriftedPrice(price, k) == MulDiv(price, DriftDenom + k, DriftDenom)

\* (newPrice - oldPrice) / oldPrice * 100, in 1/100 of a percent
PriceChange24h(newPrice, oldPrice) ==
  CASE oldPrice > 0 ->
    LET d == newPrice - oldPrice
        x == (d % oldPrice) * 100
    IN  (d \div oldPrice) * 10000 + (x \div oldPrice) * 100
          + ((x % oldPrice) * 100) \div oldPrice

\* user.holdings.get(symbol) || 0
Holding(holdings, sym) == IF sym \in DOMAIN holdings THEN holdings[sym] ELSE 0

\* user.holdings.set(symbol, q)
SetHolding(holdings, sym, q) ==
  [s \in (DOMAIN holdings) \cup {sym} |-> IF s = sym THEN q ELSE holdings[s]]

\* user.holdings.delete(symbol)
DeleteHolding(holdings, sym) ==
  [s \in (DOMAIN holdings) \ {sym} |-> holdings[s]]

NoHoldings == [s \in {} |-> 0]

----------------------------------------------------------------------------
(* The trade computed by the handler on the documents it loaded *)

\* const totalPrice = amount * coin.price
TotalPrice(amount, price) == Num(amount) * price

\* the buy branch: debit the balance, credit the holding
BuyUser(user, sym, amount, price) ==
  [user EXCEPT
     !.balance  = @ - TotalPrice(amount, price),
     !.holdings = SetHolding(@, sym, JsPlus(Holding(@, sym), amount))]

\* (mutant) the sell branch without the delete of a holding of 0
SellUserKeepZero(user, sym, amount, price) ==
  [user EXCEPT
     !.balance  = @ + TotalPrice(amount, price),
     !.holdings = SetHolding(@, sym, Holding(@, sym) - Num(amount))]

\* the sell branch: credit the balance, debit the holding, delete it at 0
SellUser(user, sym, amount, price) ==
  LET set == SetHolding(user.holdings, sym,
                        Holding(user.holdings, sym) - Num(amount))
  IN  [user EXCEPT
         !.balance  = @ + TotalPrice(amount, price),
         !.holdings = IF set[sym] = 0 THEN DeleteHolding(set, sym) ELSE set]

\* (mutant) the checks without the one on the holding sold
TradeErrorNoHoldingCheck(user, sym, type, amount, price) ==
  IF type = "buy"
  THEN IF user.balance < TotalPrice(amount, price)
       THEN "Insufficient funds" ELSE ""
  ELSE IF type = "sell" THEN "" ELSE "Invalid transaction type"

\* the error thrown by the checks of the handler, "" when it throws none
TradeError(user, sym, type, amount, price) ==
  IF type = "buy"
  THEN IF user.balance < TotalPrice(amount, price)
       THEN "Insufficient funds" ELSE ""
  ELSE IF type = "sell"
  THEN IF Holding(user.holdings, sym) < Num(amount)
       THEN "Insufficient coin balance" ELSE ""
  ELSE "Invalid transaction type"

TradeUser(user, sym, type, amount, price) ==
  IF type = "buy" THEN BuyUser(user, sym, amount, price)
                  ELSE SellUser(user, sym, amount, price)

\* if (!coinId || !type || amount <= 0)
InvalidInput(coinId, type, amount) ==
  coinId = "" \/ type = "" \/ Num(amount) <= 0

----------------------------------------------------------------------------
(* State *)

\* bcrypt.hash(password, 10)
BcryptHash(password) == <<"$2a$10$", password>>

NoUser ==
  [username |-> "", password |-> BcryptHash(""), balance |-> 0,
   holdings |-> NoHoldings]
NoAmount == [n |-> 0, str |-> FALSE]

IdleReq ==
  [pc |-> "idle", userId |-> "", coinId |-> "", type |-> "",
   amount |-> NoAmount,
   snapUser |-> NoUser, snapPrice |-> 0, user |-> NoUser, price |-> 0,
   stale |-> {}, status |-> 0, message |-> "", at |-> "", ts |-> 0]

\* initializeDatabase: priceHistory: [{price}], priceChange24h: 0; v is the
\* document's version key __v
NewCoin(price) ==
  [price |-> price, priceHistory |-> <<price>>, priceChange24h |-> 0, v |-> 0]

\* the browser tabs and the pages of the frontend
Clients == 1..MaxClients
Pages == {"dashboard", "marketplace"}
\* the page that tab k shows
PageOf(k) == IF k % 2 = 1 THEN "dashboard" ELSE "marketplace"

\* useState<User | null>(null), useState<Coin[]>([])
NullUser == [_id |-> ""]
NoCoins == [c \in {} |-> 0]
NoEvent == [kind |-> ""]

\* a tab before the page is mounted: nrx counts the events its socket
\* handlers have handled, last is the latest of them
NoClient ==
  [page |-> "", me |-> "", connected |-> FALSE, loaded |-> FALSE,
   user |-> NullUser, coins |-> NoCoins, nrx |-> 0, last |-> NoEvent]

InitStore ==
  /\ users = [u \in {} |-> NoUser]
  /\ coins = [c \in Symbols |-> NewCoin(InitPrice[c])]
  /\ txlog = <<>>
  /\ req = [r \in Slots |-> IdleReq]
  /\ tick = <<>>
  /\ applied = [u \in UserIds |-> 0]
  /\ serial = [users |-> users, price |-> [c \in Symbols |-> InitPrice[c]],
               ok |-> TRUE]
  /\ sent = <<>>
  /\ signups = [n \in NameSet |-> 0]
  /\ clock = 0
  /\ clients = [k \in Clients |-> NoClient]

Init ==
  InitStore /\ budget = MaxRequests /\ nticks = MaxTicks
            /\ nsignups = MaxSignups

\* slots whose transaction is open (begun, neither committed nor aborted)
InFlight == {r \in Slots : req[r].pc \in {"loaded", "coinSaved", "saved"}}

\* open transactions holding a pending write on the coin / on the user
CoinWriters(c) ==
  {r \in Slots : req[r].pc \in {"coinSaved", "saved"} /\ req[r].coinId = c}
UserWriters(u) ==
  {r \in Slots : req[r].pc = "saved" /\ req[r].userId = u}

\* the handler instance that serves the next request: instances are
\* interchangeable, the first one that is not running takes it
FreeSlot ==
  IF InFlight = Slots THEN 0
  ELSE CHOOSE r \in Slots \ InFlight : \A q \in Slots \ InFlight : r <= q

\* a committed write of the documents docs (user ids, coin symbols) by slot r
\* (0: outside any transaction) makes them newer than the snapshot of every
\* other open transaction that read them
MarkStale(rq, r, docs) ==
  [q \in Slots |->
     IF q # r /\ rq[q].pc \in {"loaded", "coinSaved", "saved"}
     THEN [rq[q] EXCEPT !.stale =
             @ \cup (docs \cap {rq[q].userId, rq[q].coinId})]
     ELSE rq[q]]

\* the handler's end: abortTransaction or commitTransaction, then
\* res.status(status).json({message}) and endSession; at is the statement
\* the handler had reached
Respond(rq, status, message) ==
  [IdleReq EXCEPT !.pc = "done", !.status = status, !.message = message,
                  !.at = rq.pc]

\* coin._id
CoinId(c) == <<"_id", c>>

\* io.emit('priceUpdate', {_id, symbol, price, priceChange24h}); by is the
\* handler that emits it (0: the simulator)
PriceUpdate(by, c, price, change) ==
  [kind |-> "priceUpdate", by |-> by, _id |-> CoinId(c), symbol |-> c,
   price |-> price, priceChange24h |-> change]

\* the toJSON transform of the user document: every field of the document,
\* the holdings map as a plain object
UserJSON(u, user) ==
  [_id |-> u, username |-> user.username, password |-> user.password,
   balance |-> user.balance, holdings |-> user.holdings]

\* .select('-password'): the document without its password field
SelectNoPassword(json) ==
  [f \in (DOMAIN json) \ {"password"} |-> json[f]]

\* io.emit('userUpdate', user)
UserUpdate(by, json) == [kind |-> "userUpdate", by |-> by, user |-> json]

\* res.status(status).json({message, user})
Response(status, message, json) ==
  [kind |-> "response", status |-> status, message |-> message, user |-> json]

----------------------------------------------------------------------------
(* The clients: the dashboard and the marketplace page *)

\* name and supply of the stored coins (supply in lots)
CoinName == [ZRX |-> "ZeroX", MNT |-> "Mintium"]
CoinSupply == [ZRX |-> 1000000000 \div LotSize, MNT |-> 21000000 \div LotSize]

\* a coin document as GET /api/coins sends it
CoinJSON(c, doc) ==
  [_id |-> CoinId(c), name |-> CoinName[c], symbol |-> c,
   price |-> doc.price, supply |-> CoinSupply[c],
   priceHistory |-> doc.priceHistory,
   priceChange24h |-> doc.priceChange24h]

\* res.json(coins)
CoinsBody(status, list) ==
  [kind |-> "response", status |-> status, coins |-> list]

\* the object an event carries
Payload(ev) ==
  IF ev.kind = "userUpdate" THEN ev.user
  ELSE [f \in (DOMAIN ev) \ {"kind", "by"} |-> ev[f]]

\* { ...obj, f: src.f }
Assign(obj, f, src) ==
  IF f \in DOMAIN src
  THEN [g \in (DOMAIN obj) \cup {f} |-> IF g = f THEN src[f] ELSE obj[g]]
  ELSE [g \in (DOMAIN obj) \ {f} |-> obj[g]]

\* { ...obj, ...src }
Spread(obj, src) ==
  [g \in (DOMAIN obj) \cup (DOMAIN src) |->
     IF g \in DOMAIN src THEN src[g] ELSE obj[g]]

\* dashboard: { ...coin, price: update.price, supply: update.supply,
\* priceChange24h: update.priceChange24h }
DashboardMerge(coin, update) ==
  Assign(Assign(Assign(coin, "price", update), "supply", update),
         "priceChange24h", update)

\* marketplace: { ...coin, ...updatedCoins }
MarketplaceMerge(coin, update) == Spread(coin, update)

\* socket.on('priceUpdate'): prevCoins.map(...)
OnPriceUpdate(cl, update) ==
  [cl EXCEPT !.coins =
     [c \in DOMAIN cl.coins |->
        IF cl.coins[c]._id = update._id
        THEN IF cl.page = "dashboard"
             THEN DashboardMerge(cl.coins[c], update)
             ELSE MarketplaceMerge(cl.coins[c], update)
        ELSE cl.coins[c]]]

\* socket.on('userUpdate'): setUser(updatedUser)
OnUserUpdate(cl, updatedUser) == [cl EXCEPT !.user = updatedUser]

\* the socket handler of the event runs
Handle(cl, ev) ==
  [(IF ev.kind = "priceUpdate" THEN OnPriceUpdate(cl, Payload(ev))
    ELSE OnUserUpdate(cl, Payload(ev)))
   EXCEPT !.nrx = @ + 1, !.last = ev]

\* (mutant) a userUpdate sent to the sockets of that user only
DeliverToOwner(cls, ev) ==
  [k \in Clients |->
     IF cls[k].connected
        /\ (ev.kind = "userUpdate" => ev.user._id = cls[k].me)
     THEN Handle(cls[k], ev) ELSE cls[k]]

\* io.emit(event, payload): to every connected socket
Deliver(cls, ev) ==
  [k \in Clients |-> IF cls[k].connected THEN Handle(cls[k], ev) ELSE cls[k]]

\* the clients after the events among what a step sent, in order
RECURSIVE Broadcast(_, _)
Broadcast(cls, out) ==
  IF out = <<>> THEN cls
  ELSE Broadcast(IF Head(out).kind \in {"priceUpdate", "userUpdate"}
                 THEN Deliver(cls, Head(out)) ELSE cls,
                 Tail(out))

\* res.json(body)
Body(status, json) == [kind |-> "response", status |-> status, user |-> json]

\* the page is opened by a logged-in user (the token of u is in
\* localStorage): useEffect starts the fetches and opens the socket
Mount(k, u, page) ==
  /\ clients[k].page = ""
  /\ page = PageOf(k)
  /\ u \in DOMAIN users
  /\ clients' = [clients EXCEPT ![k] =
                   [NoClient EXCEPT !.page = page, !.me = u,
                                    !.connected = TRUE]]
  /\ sent' = <<>>
  /\ UNCHANGED <<users, coins, txlog, req, tick, budget, nticks, applied,
                 serial, signups, nsignups, clock>>

\* fetchData: GET /api/user and GET /api/coins are answered, then
\* setUser(userData) and setCoins(coinsData)
FetchDone(k) ==
  /\ clients[k].connected
  /\ ~clients[k].loaded
  /\ LET userData == SelectNoPassword(UserJSON(clients[k].me,
                                               users[clients[k].me]))
         coinsData == [c \in Symbols |-> CoinJSON(c, coins[c])]
     IN  /\ clients' = [clients EXCEPT ![k].loaded = TRUE,
                                       ![k].user = userData,
                                       ![k].coins = coinsData]
         /\ sent' = <<Body(200, userData), CoinsBody(200, coinsData)>>
  /\ UNCHANGED <<users, coins, txlog, req, tick, budget, nticks, applied,
                 serial, signups, nsignups, clock>>

\* the page is left: socket.disconnect()
Unmount(k) ==
  /\ clients[k].connected
  /\ clients' = [clients EXCEPT ![k].connected = FALSE]
  /\ sent' = <<>>
  /\ UNCHANGED <<users, coins, txlog, req, tick, budget, nticks, applied,
                 serial, signups, nsignups, clock>>

----------------------------------------------------------------------------
(* POST /api/signup *)

\* the _id given to the next user document: ids are handed out in order
UserOrder == <<"u1", "u2">>
NextUserId ==
  IF Cardinality(DOMAIN users) < Len(UserOrder)
  THEN UserOrder[Cardinality(DOMAIN users) + 1] ELSE ""

\* signups[n] counts the handlers that found no user named n and have not
\* saved theirs yet; nsignups counts the signup requests still to arrive
Pending == {n \in NameSet : signups[n] > 0}
Taken == {users[u].username : u \in DOMAIN users}

\* usernames never requested before are interchangeable: a request carries a
\* name already requested or the first one never requested
FirstNewName ==
  LET new == {i \in 1..Len(Usernames) : Usernames[i] \notin Taken \cup Pending}
  IN  IF new = {} THEN ""
      ELSE Usernames[CHOOSE i \in new : \A k \in new : i <= k]

RECURSIVE SumPending(_)
SumPending(S) ==
  IF S = {} THEN 0
  ELSE LET n == CHOOSE x \in S : TRUE IN signups[n] + SumPending(S \ {n})

\* res.status(status).json({message})
SignupResponse(status, message) ==
  [kind |-> "response", status |-> status, message |-> message]

\* const existingUser = await User.findOne({username}), and the 400 when
\* there is one
SignupFind(n) ==
  /\ nsignups > 0
  /\ n \in Taken \cup Pending \cup {FirstNewName}
  /\ n \in Taken
       \/ Cardinality(DOMAIN users) + SumPending(NameSet) < Len(UserOrder)
  /\ nsignups' = nsignups - 1
  /\ IF n \in Taken
     THEN /\ sent' = <<SignupResponse(400, "Username already exists")>>
          /\ UNCHANGED signups
     ELSE /\ sent' = <<>>
          /\ signups' = [signups EXCEPT ![n] = @ + 1]
  /\ UNCHANGED <<users, coins, txlog, req, tick, budget, nticks, applied,
                 serial,
                 clock,
                 clients>>

\* the document of new User({username, password: hashedPassword, balance:
\* 10000, holdings: new Map()})
NewUser(n, password) ==
  [username |-> n, password |-> BcryptHash(password),
   balance |-> StartBalance, holdings |-> NoHoldings]

\* bcrypt.hash, await user.save(), 201
SignupSave(n) ==
  /\ n \in Pending
  /\ signups' = [signups EXCEPT ![n] = @ - 1]
  /\ users' = [v \in (DOMAIN users) \cup {NextUserId} |->
                 IF v = NextUserId THEN NewUser(n, Password) ELSE users[v]]
  /\ serial' = [serial EXCEPT !.users = users']
  /\ sent' = <<SignupResponse(201, "User registered successfully")>>
  /\ UNCHANGED <<coins, txlog, req, tick, budget, nticks, applied, nsignups,
                 clock,
                 clients>>

----------------------------------------------------------------------------
(* POST /api/transaction *)

\* the record built by new Transaction({...}) after updateCoinPrice
TransactionRecord(rq) ==
  [userId |-> rq.userId, coinId |-> rq.coinId, type |-> rq.type,
   amount |-> Num(rq.amount), price |-> rq.price, timestamp |-> rq.ts]

\* (mutant) coin.save() outside the session: written at once
CoinsAfterSaveNoSession(cs, c, price) == [cs EXCEPT ![c].price = price]

\* (mutant) transaction.save() outside the session: inserted at once
LogAfterSaveNoSession(log, rec) == Append(log, rec)

\* (mutant) a store that detects no write conflict on coins
NoCoinConflict(r) == FALSE

\* the stored coins as other sessions see them after coin.save() of a
\* document loaded with .session(session): the write is pending
CoinsAfterSave(cs, c, price) == cs

\* the stored log as other sessions see it after transaction.save({session})
LogAfterSave(log, rec) == log

\* (mutant) a commit that stores the record in place of the log
LogAfterCommitOverwrite(log, rec) == <<rec>>

\* the stored log after commitTransaction: the pending insert is applied
LogAfterCommit(log, rec) == Append(log, rec)

\* (mutant) user.save() outside the session: the balance is stored at once
UsersAfterSaveNoSession(us, u, user) ==
  [us EXCEPT ![u].balance = user.balance]

\* the stored users as other sessions see them after user.save({session})
UsersAfterSave(us, u, user) == us

\* WriteConflict of coin.save() / user.save({session}) in the transaction
CoinConflict(r) ==
  \/ req[r].coinId \in req[r].stale
  \/ CoinWriters(req[r].coinId) \ {r} # {}

UserConflict(r) ==
  \/ req[r].userId \in req[r].stale
  \/ UserWriters(req[r].userId) \ {r} # {}

\* the update user.save() sends: balance and the holdings key it modified
UserWrite(stored, local, sym) ==
  [stored EXCEPT
     !.balance  = local.balance,
     !.holdings = IF sym \in DOMAIN local.holdings
                  THEN SetHolding(@, sym, local.holdings[sym])
                  ELSE DeleteHolding(@, sym)]

\* the trade applied to the serial reference state
SerialApply(s, u, c, type, amount) ==
  IF TradeError(s.users[u], c, type, amount, s.price[c]) # ""
  THEN [s EXCEPT !.ok = FALSE]
  ELSE [s EXCEPT !.users[u] = TradeUser(@, c, type, amount, s.price[c]),
                 !.price[c] = ImpactedPrice(@, type, amount)]

\* lines 203-233/244: startSession, validation, the two reads (one snapshot),
\* the checks and the changes to the loaded documents, up to coin.save()
Begin(r, u, c, t, a) ==
  /\ budget > 0
  /\ r = FreeSlot
  /\ u \in DOMAIN users
  /\ (c \in Symbols /\ t = "buy" /\ a.str) =>
        Holding(users[u].holdings, c) <= MaxHolding
  /\ budget' = budget - 1
  /\ LET base == [IdleReq EXCEPT !.userId = u, !.coinId = c, !.type = t,
                                 !.amount = a]
         err == IF InvalidInput(c, t, a)
                THEN "Invalid input"
                ELSE IF c \notin Symbols
                THEN "User or Coin not found"
                ELSE TradeError(users[u], c, t, a, coins[c].price)
     IN  req' = [req EXCEPT ![r] =
                   IF err # ""
                   THEN Respond(base, 400, err)
                   ELSE [base EXCEPT
                           !.pc = "loaded",
                           !.snapUser = users[u],
                           !.snapPrice = coins[c].price,
                           !.user = TradeUser(users[u], c, t, a, coins[c].price),
                           !.price = ImpactedPrice(coins[c].price, t, a)]]
  /\ sent' = <<>>
  /\ UNCHANGED <<users, coins, txlog, tick, nticks, applied, serial,
                 signups, nsignups,
                 clock,
                 clients>>

\* updateCoinPrice: await coin.save() and the emit, then new Transaction
\* with timestamp: new Date()
SaveCoin(r) ==
  /\ req[r].pc = "loaded"
  /\ ~CoinConflict(r)
  /\ clock' = clock + 1
  /\ req' = [req EXCEPT ![r].pc = "coinSaved", ![r].ts = clock']
  /\ coins' = CoinsAfterSave(coins, req[r].coinId, req[r].price)
  /\ sent' = <<PriceUpdate(r, req[r].coinId, req[r].price,
                           coins[req[r].coinId].priceChange24h)>>
  /\ clients' = Broadcast(clients, sent')
  /\ UNCHANGED <<users, txlog, tick, budget, nticks, applied, serial,
                 signups, nsignups>>

\* coin.save() throws: catch, abortTransaction, 400
SaveCoinConflict(r) ==
  /\ req[r].pc = "loaded"
  /\ CoinConflict(r)
  /\ req' = [req EXCEPT ![r] = Respond(@, 400, "WriteConflict")]
  /\ sent' = <<>>
  /\ UNCHANGED <<users, coins, txlog, tick, budget, nticks, applied, serial,
                 signups, nsignups,
                 clock,
                 clients>>

\* await transaction.save({session}); await user.save({session})
SaveUser(r) ==
  /\ req[r].pc = "coinSaved"
  /\ ~UserConflict(r)
  /\ req' = [req EXCEPT ![r].pc = "saved"]
  /\ txlog' = LogAfterSave(txlog, TransactionRecord(req[r]))
  /\ users' = UsersAfterSave(users, req[r].userId, req[r].user)
  /\ applied' = [applied EXCEPT ![req[r].userId] =
                   IF users' = users THEN @ ELSE @ + 1]
  /\ sent' = <<>>
  /\ UNCHANGED <<coins, tick, budget, nticks, serial,
                 signups, nsignups,
                 clock,
                 clients>>

\* user.save({session}) throws: catch, abortTransaction, 400
SaveUserConflict(r) ==
  /\ req[r].pc = "coinSaved"
  /\ UserConflict(r)
  /\ req' = [req EXCEPT ![r] = Respond(@, 400, "WriteConflict")]
  /\ txlog' = LogAfterSave(txlog, TransactionRecord(req[r]))
  /\ sent' = <<>>
  /\ UNCHANGED <<users, coins, tick, budget, nticks, applied, serial,
                 signups, nsignups,
                 clock,
                 clients>>

\* await session.commitTransaction(); 200 {message, user}
Commit(r) ==
  /\ req[r].pc = "saved"
  /\ LET u == req[r].userId
         c == req[r].coinId
     IN  /\ users' = [users EXCEPT ![u] = UserWrite(@, req[r].user, c)]
         /\ coins' = [coins EXCEPT ![c].price = req[r].price]
         /\ txlog' = LogAfterCommit(txlog, TransactionRecord(req[r]))
         /\ req' = [MarkStale(req, r, {u, c}) EXCEPT
                      ![r] = Respond(req[r], 200, "Transaction successful")]
         /\ applied' = [applied EXCEPT ![u] = @ + 1]
         /\ serial' = SerialApply(serial, u, c, req[r].type, req[r].amount)
         /\ sent' = <<UserUpdate(r, UserJSON(u, req[r].user)),
                      Response(200, "Transaction successful",
                               UserJSON(u, req[r].user))>>
         /\ clients' = Broadcast(clients, sent')
  /\ UNCHANGED <<tick, budget, nticks,
                 signups, nsignups,
                 clock>>

----------------------------------------------------------------------------
(* POST /api/transaction: rejections of the store outside the try block's  *)
(* reach                                                                   *)

\* what express makes of an async handler whose promise is rejected: 0 when
\* it ignores the rejection and the request stays without a response
\* (express 4), 500 when it passes it to its default error handler
\* (express 5)
Unhandled == {0, 500}

\* the handler's promise is rejected at the statement rq.pc
Throw(rq, status) ==
  IF status = 0 THEN [IdleReq EXCEPT !.pc = "thrown", !.at = rq.pc]
  ELSE Respond(rq, status, "Internal Server Error")

\* line 203: await mongoose.startSession() rejects; the statement is before
\* the try, so neither the catch nor the finally runs
StartSessionFail(r, s) ==
  /\ budget > 0
  /\ r = FreeSlot
  /\ budget' = budget - 1
  /\ req' = [req EXCEPT ![r] = Throw(IdleReq, s)]
  /\ sent' = <<>>
  /\ UNCHANGED <<users, coins, txlog, tick, nticks, applied, serial,
                 signups, nsignups, clock, clients>>

\* line 261: commitTransaction rejects and the store commits nothing; the
\* session's transaction is then in its committed state, so abortTransaction
\* in the catch (line 271) throws, the finally ends the session and the
\* handler's promise is rejected before line 273
CommitFail(r, s) ==
  /\ req[r].pc = "saved"
  /\ req' = [req EXCEPT ![r] = Throw(@, s)]
  /\ sent' = <<>>
  /\ UNCHANGED <<users, coins, txlog, tick, budget, nticks, applied, serial,
                 signups, nsignups, clock, clients>>

----------------------------------------------------------------------------
(* authenticateToken, POST /api/login *)

\* jwt.sign({_id: user._id}, JWT_SECRET)
Token(u) == <<"jwt", u>>
\* no Authorization header; a token that jwt.verify rejects
NoToken == <<>>
BadToken == <<"jwt">>
Tokens == {NoToken, BadToken} \cup {Token(u) : u \in UserIds}

\* the status with which authenticateToken answers, 0 when it calls next()
VerifyToken(token) ==
  IF token = NoToken THEN 401
  ELSE IF \E u \in UserIds : token = Token(u) THEN 0
  ELSE 403

\* res.status(status).json({message})
Message(status, message) ==
  [kind |-> "response", status |-> status, message |-> message]

\* res.json({accessToken})
TokenBody(status, token) ==
  [kind |-> "response", status |-> status, accessToken |-> token]

\* a request to a route behind authenticateToken without a valid token: the
\* middleware answers and the route's handler does not run
AuthReject(token) ==
  /\ token \in Tokens
  /\ VerifyToken(token) # 0
  /\ sent' = <<Message(VerifyToken(token),
                       IF VerifyToken(token) = 401 THEN "No token provided"
                       ELSE "Invalid token")>>
  /\ UNCHANGED <<users, coins, txlog, req, tick, budget, nticks, applied,
                 serial, signups, nsignups, clock, clients>>

\* the passwords of the login requests
Passwords == {Password, "guess"}

\* bcrypt.compare(password, hash)
BcryptCompare(password, hash) == hash = BcryptHash(password)

\* User.findOne({username}): the first document with that username
FindOneUser(n) ==
  LET found == {i \in 1..Len(UserOrder) :
                  /\ UserOrder[i] \in DOMAIN users
                  /\ users[UserOrder[i]].username = n}
  IN  IF found = {} THEN ""
      ELSE UserOrder[CHOOSE i \in found : \A j \in found : i <= j]

Login(n, password) ==
  /\ LET u == FindOneUser(n)
     IN  sent' = <<IF u = "" THEN Message(400, "Cannot find user")
                   ELSE IF BcryptCompare(password, users[u].password)
                        THEN TokenBody(200, Token(u))
                        ELSE Message(401, "Not Allowed")>>
  /\ UNCHANGED <<users, coins, txlog, req, tick, budget, nticks, applied,
                 serial, signups, nsignups, clock, clients>>

----------------------------------------------------------------------------
(* GET /api/coins *)

\* Coin.find(), res.json(coins)
GetCoins ==
  /\ sent' = <<CoinsBody(200, [c \in Symbols |-> CoinJSON(c, coins[c])])>>
  /\ UNCHANGED <<users, coins, txlog, req, tick, budget, nticks, applied,
                 serial, signups, nsignups, clock, clients>>

\* Coin.find() rejects (the store fails): the catch answers 500
GetCoinsFail ==
  /\ sent' = <<Message(500, "Error fetching coins")>>
  /\ UNCHANGED <<users, coins, txlog, req, tick, budget, nticks, applied,
                 serial, signups, nsignups, clock, clients>>

----------------------------------------------------------------------------
(* GET /api/user *)

\* User.findById(req.user._id).select('-password'), res.json(user)
GetUser(u) ==
  /\ u \in DOMAIN users
  /\ sent' = <<Body(200, SelectNoPassword(UserJSON(u, users[u])))>>
  /\ UNCHANGED <<users, coins, txlog, req, tick, budget, nticks, applied,
                 serial, signups, nsignups,
                 clock,
                 clients>>

----------------------------------------------------------------------------
(* GET /api/transactions *)

\* the indices of S (records of the log) by decreasing timestamp, the first
\* n of them: .sort({timestamp: -1}).limit(n)
RECURSIVE SortLimit(_, _)
SortLimit(S, n) ==
  IF S = {} \/ n = 0 THEN <<>>
  ELSE LET i == CHOOSE x \in S :
                  \A y \in S : txlog[y].timestamp <= txlog[x].timestamp
       IN  <<txlog[i]>> \o SortLimit(S \ {i}, n - 1)

\* (mutant) the query without its userId filter
FindAnyTransactions(u) ==
  SortLimit(1..Len(txlog), PageSize)

\* Transaction.find({userId}).sort({timestamp: -1}).limit(5)
FindTransactions(u) ==
  SortLimit({i \in 1..Len(txlog) : txlog[i].userId = u}, PageSize)

\* res.json(transactions)
ListBody(status, list) ==
  [kind |-> "response", status |-> status, list |-> list]

GetTransactions(u) ==
  /\ u \in DOMAIN users
  /\ sent' = <<ListBody(200, FindTransactions(u))>>
  /\ UNCHANGED <<users, coins, txlog, req, tick, budget, nticks, applied,
                 serial, signups, nsignups, clock,
                 clients>>

----------------------------------------------------------------------------
(* The price simulator: setInterval(async () => {...}, 2000) *)

\* tick is the sequence of the simulator callbacks that are running, in the
\* order in which the timer started them; nticks counts the ticks the timer
\* has still to start

\* const coins = await Coin.find()
TickStart ==
  /\ nticks > 0
  /\ nticks' = nticks - 1
  /\ tick' = Append(tick, [docs |-> coins, i |-> 1])
  /\ sent' = <<>>
  /\ UNCHANGED <<users, coins, txlog, req, budget, applied, serial,
                 signups, nsignups,
                 clock,
                 clients>>

\* the callback j returns: it leaves the sequence of running callbacks
TickEnd(j) == [n \in 1..(Len(tick) - 1) |-> IF n < j THEN tick[n] ELSE tick[n + 1]]

\* (mutant) priceHistory.push without the shift
TickHistoryNoShift(history, newPrice) == Append(history, newPrice)

\* priceHistory.push, and shift beyond the window
TickHistory(history, newPrice) ==
  LET pushed == Append(history, newPrice)
  IN  IF Len(pushed) > HistoryWindow THEN Tail(pushed) ELSE pushed

\* the array has shifted: mongoose sends a $set of the whole array, with the
\* document's version in the filter of the update
TickShifts(doc) == Len(doc.priceHistory) + 1 > HistoryWindow

\* VersionError of coin.save(): the stored version is not the one loaded
TickVersionError(stored, doc) == TickShifts(doc) /\ stored.v # doc.v

\* the update coin.save() sends: $set of price and priceChange24h, and
\* $push of the new entry (a $set of the whole array once it has shifted);
\* both increment the version
CoinWrite(stored, doc, newPrice) ==
  LET local == TickHistory(doc.priceHistory, newPrice)
  IN  [price |-> newPrice,
       priceChange24h |-> PriceChange24h(newPrice, local[1]),
       priceHistory |-> IF TickShifts(doc)
                        THEN local
                        ELSE Append(stored.priceHistory, newPrice),
       v |-> stored.v + 1]

\* one iteration of the loop over the coins read by Coin.find(); its
\* coin.save() waits while an open transaction holds a write on the coin
TickCoin(j, k) ==
  /\ j \in 1..Len(tick)
  /\ LET c == CoinOrder[tick[j].i]
         newPrice == DriftedPrice(tick[j].docs[c].price, k)
     IN  /\ CoinWriters(c) = {}
         /\ ~TickVersionError(coins[c], tick[j].docs[c])
         /\ coins' = [coins EXCEPT ![c] = CoinWrite(@, tick[j].docs[c], newPrice)]
         /\ req' = MarkStale(req, 0, {c})
         /\ serial' = [serial EXCEPT !.price[c] = newPrice]
         /\ sent' = <<PriceUpdate(0, c, newPrice,
                                  CoinWrite(coins[c], tick[j].docs[c],
                                            newPrice).priceChange24h)>>
         /\ clients' = Broadcast(clients, sent')
  /\ tick' = IF tick[j].i = Len(CoinOrder) THEN TickEnd(j)
             ELSE [tick EXCEPT ![j].i = @ + 1]
  /\ UNCHANGED <<users, txlog, budget, nticks, applied,
                 signups, nsignups,
                 clock>>

\* coin.save() rejects (a VersionError or a failure of the store): the catch
\* around the whole loop logs the error and the callback returns
TickCoinFail(j) ==
  /\ j \in 1..Len(tick)
  /\ CoinWriters(CoinOrder[tick[j].i]) = {}
  /\ tick' = TickEnd(j)
  /\ sent' = <<>>
  /\ UNCHANGED <<users, coins, txlog, req, budget, nticks, applied, serial,
                 signups, nsignups,
                 clock,
                 clients>>

----------------------------------------------------------------------------

NextSignups ==
  \/ \E n \in NameSet : SignupFind(n)
  \/ \E n \in NameSet : SignupSave(n)

NextTx ==
  \/ \E r \in Slots, u \in UserIds, c \in CoinIds, t \in Types, a \in Amounts :
       Begin(r, u, c, t, a)
  \/ \E r \in Slots : SaveCoin(r)
  \/ \E r \in Slots : SaveCoinConflict(r)
  \/ \E r \in Slots : SaveUser(r)
  \/ \E r \in Slots : SaveUserConflict(r)
  \/ \E r \in Slots : Commit(r)

NextTick ==
  \/ TickStart
  \/ \E j \in 1..Len(tick), k \in Drifts : TickCoin(j, k)
  \/ \E j \in 1..Len(tick) : TickCoinFail(j)

NextTrades == NextSignups \/ NextTx

NextClients ==
  \/ \E k \in Clients, u \in UserIds, page \in Pages : Mount(k, u, page)
  \/ \E k \in Clients : FetchDone(k)
  \/ \E k \in Clients : Unmount(k)

NextReads ==
  \/ \E u \in UserIds : GetUser(u)
  \/ \E u \in UserIds : GetTransactions(u)

Next == NextTrades \/ NextTick

\* the whole system: signups, transactions and the price simulator
Spec == Init /\ [][Next]_vars

\* signups and transactions between two simulator ticks
InitTrades ==
  InitStore /\ budget = MaxTradeRequests /\ nticks = 0
            /\ nsignups = MaxTradeSignups
SpecTrades == InitTrades /\ [][NextTrades]_vars

\* signups, transactions and the read routes
InitReads ==
  InitStore /\ budget = MaxReadRequests /\ nticks = 0
            /\ nsignups = MaxSignups
SpecReads == InitReads /\ [][NextTrades \/ NextReads]_vars

\* a trade of the log with which SpecLog starts
Past(u, c, t, n) ==
  [userId |-> u, coinId |-> c, type |-> t, amount |-> [n |-> n, str |-> FALSE]]

\* the trades committed before SpecLog starts, in commit order
PastTrades ==
  <<Past("u1", "ZRX", "buy", 50), Past("u1", "ZRX", "sell", 50),
    Past("u2", "MNT", "buy", 50), Past("u1", "ZRX", "buy", 50),
    Past("u1", "ZRX", "sell", 50)>>

\* the store after the first n past trades, run one after another by the
\* handler: s.users, s.price, s.log
RECURSIVE After(_)
After(n) ==
  IF n = 0
  THEN [users |-> [u \in UserIds |->
                     NewUser(IF u = "u1" THEN "ann" ELSE "bob", Password)],
        price |-> InitPrice, log |-> <<>>]
  ELSE LET s == After(n - 1)
           p == PastTrades[n]
           P == s.price[p.coinId]
       IN  [users |-> [s.users EXCEPT ![p.userId] =
                         TradeUser(@, p.coinId, p.type, p.amount, P)],
            price |-> [s.price EXCEPT ![p.coinId] =
                         ImpactedPrice(@, p.type, p.amount)],
            log |-> Append(s.log,
                      TransactionRecord(
                        [p EXCEPT !.amount = p.amount] @@
                        [price |-> ImpactedPrice(P, p.type, p.amount),
                         ts |-> n]))]

\* two users who have traded: the log holds four records of u1, one of u2
InitLog ==
  LET s == After(Len(PastTrades))
  IN  /\ users = s.users
      /\ coins = [c \in Symbols |-> [NewCoin(InitPrice[c]) EXCEPT
                                       !.price = s.price[c]]]
      /\ txlog = s.log
      /\ req = [r \in Slots |-> IdleReq]
      /\ tick = <<>>
      /\ applied = [u \in UserIds |->
                      Cardinality({i \in 1..Len(s.log) : s.log[i].userId = u})]
      /\ serial = [users |-> users, price |-> s.price, ok |-> TRUE]
      /\ sent = <<>>
      /\ signups = [n \in NameSet |-> 0]
      /\ clock = Len(PastTrades)
      /\ clients = [k \in Clients |-> NoClient]
      /\ budget = MaxLogRequests
      /\ nticks = 0
      /\ nsignups = 0
SpecLog == InitLog /\ [][NextTx \/ NextReads]_vars

\* two signed-up users, no client yet
InitClients ==
  /\ users = After(0).users
  /\ coins = [c \in Symbols |-> NewCoin(InitPrice[c])]
  /\ txlog = <<>>
  /\ req = [r \in Slots |-> IdleReq]
  /\ tick = <<>>
  /\ applied = [u \in UserIds |-> 0]
  /\ serial = [users |-> users, price |-> InitPrice, ok |-> TRUE]
  /\ sent = <<>>
  /\ signups = [n \in NameSet |-> 0]
  /\ clock = 0
  /\ clients = [k \in Clients |-> NoClient]
  /\ budget = MaxClientRequests
  /\ nticks = 0
  /\ nsignups = 0
\* the transactions of SpecClients and SpecFrame: buys of 50 lots
NextBuys ==
  \/ \E r \in Slots, u \in UserIds, c \in Symbols :
        Begin(r, u, c, "buy", [n |-> 50, str |-> FALSE])
  \/ \E r \in Slots : SaveCoin(r)
  \/ \E r \in Slots : SaveCoinConflict(r)
  \/ \E r \in Slots : SaveUser(r)
  \/ \E r \in Slots : SaveUserConflict(r)
  \/ \E r \in Slots : Commit(r)
SpecClients == InitClients /\ [][NextBuys \/ NextClients]_vars

\* buys, with a store that may reject startSession and commitTransaction
NextLive ==
  \/ NextBuys
  \/ \E r \in Slots, s \in Unhandled : StartSessionFail(r, s)
  \/ \E r \in Slots, s \in Unhandled : CommitFail(r, s)

\* the next await of the running handler r settles
Progress(r) ==
  \/ SaveCoin(r) \/ SaveCoinConflict(r)
  \/ SaveUser(r) \/ SaveUserConflict(r)
  \/ Commit(r) \/ \E s \in Unhandled : CommitFail(r, s)

\* two signed-up users; every await of a running handler settles in the end
InitLive ==
  /\ users = After(0).users
  /\ coins = [c \in Symbols |-> NewCoin(InitPrice[c])]
  /\ txlog = <<>>
  /\ req = [r \in Slots |-> IdleReq]
  /\ tick = <<>>
  /\ applied = [u \in UserIds |-> 0]
  /\ serial = [users |-> users, price |-> InitPrice, ok |-> TRUE]
  /\ sent = <<>>
  /\ signups = [n \in NameSet |-> 0]
  /\ clock = 0
  /\ clients = [k \in Clients |-> NoClient]
  /\ budget = MaxLiveRequests
  /\ nticks = 0
  /\ nsignups = 0
SpecLive ==
  InitLive /\ [][NextLive]_vars /\ \A r \in Slots : WF_vars(Progress(r))

\* the routes that write nothing
NextAuth ==
  \/ \E token \in Tokens : AuthReject(token)
  \/ \E n \in NameSet, password \in Passwords : Login(n, password)
  \/ GetCoins
  \/ GetCoinsFail

\* every route and the simulator
InitFrame ==
  InitStore /\ budget = MaxFrameRequests /\ nticks = MaxFrameTicks
            /\ nsignups = MaxFrameSignups
SpecFrame ==
  InitFrame /\ [][NextSignups \/ NextBuys \/ NextTick \/ NextReads
                   \/ NextAuth]_vars

\* a history of n entries that ends at price, one price step apart
WindowHistory(price, n) == [i \in 1..n |-> price - (n - i)]

\* a coin after n - 1 ticks
WindowCoin(price, n) ==
  [price |-> price, priceHistory |-> WindowHistory(price, n),
   priceChange24h |-> PriceChange24h(price, price - (n - 1)), v |-> n - 1]

\* the simulator after a day of ticks: the history of ZRX is one entry short
\* of the window, the history of MNT fills it
InitWindow ==
  /\ users = [u \in {} |-> NoUser]
  /\ coins = [c \in Symbols |->
                WindowCoin(InitPrice[c],
                           IF c = "ZRX" THEN HistoryWindow - 1
                           ELSE HistoryWindow)]
  /\ txlog = <<>>
  /\ req = [r \in Slots |-> IdleReq]
  /\ tick = <<>>
  /\ applied = [u \in UserIds |-> 0]
  /\ serial = [users |-> users, price |-> [c \in Symbols |-> InitPrice[c]],
               ok |-> TRUE]
  /\ sent = <<>>
  /\ signups = [n \in NameSet |-> 0]
  /\ clock = 0
  /\ clients = [k \in Clients |-> NoClient]
  /\ budget = 0
  /\ nticks = MaxWindowTicks
  /\ nsignups = 0
SpecWindow == InitWindow /\ [][NextTick]_vars

----------------------------------------------------------------------------
(* Properties *)

\* the step in which handler r commits and answers 200
Commits(r) ==
  req[r].pc = "saved" /\ req'[r].pc = "done" /\ req'[r].status = 200

\* the step in which a request arrives at handler r
BeginsIn(r) == budget' = budget - 1 /\ r = FreeSlot

\* the step in which handler r aborts and answers an error
Rejects(r) ==
  /\ BeginsIn(r) \/ req[r].pc # "done"
  /\ req'[r].pc = "done" /\ req'[r].status # 200

\* a step of handler r
Steps(r) == BeginsIn(r) \/ req'[r].pc # req[r].pc

StoreUnchanged == UNCHANGED <<users, coins, txlog>>

\* the records of the log that belong to user u
RecordsOf(u) == {i \in 1..Len(txlog) : txlog[i].userId = u}

\* C1: a successful buy of amount A of coin S by user U at the observed price
\* P leaves U's balance at the balance before minus A*P and U's holding of S
\* at the holding before (0 if absent) plus A.
C1_BuyEffect ==
  [][\A r \in Slots :
       (Commits(r) /\ req[r].type = "buy") =>
         LET u == req[r].userId
             c == req[r].coinId
         IN  /\ users'[u].balance =
                  users[u].balance - req[r].amount.n * req[r].snapPrice
             /\ c \in DOMAIN users'[u].holdings
             /\ users'[u].holdings[c] =
                  Holding(users[u].holdings, c) + req[r].amount.n]_vars

\* a first buy of 50 lots of ZRX at the starting price has committed
C1_Witness ==
  \E u \in DOMAIN users :
    /\ Len(txlog) = 1 /\ txlog[1].type = "buy" /\ txlog[1].userId = u
    /\ users[u].balance = StartBalance - 50 * InitPrice["ZRX"]
    /\ Holding(users[u].holdings, "ZRX") = 50

\* C2: a successful sell of amount A of coin S by user U at the observed price
\* P raises U's balance by A*P and lowers the holding of S by A; when A is the
\* whole holding, the key S is absent afterwards.
C2_SellEffect ==
  [][\A r \in Slots :
       (Commits(r) /\ req[r].type = "sell") =>
         LET u == req[r].userId
             c == req[r].coinId
             before == Holding(users[u].holdings, c)
         IN  /\ users'[u].balance =
                  users[u].balance + req[r].amount.n * req[r].snapPrice
             /\ Holding(users'[u].holdings, c) = before - req[r].amount.n
             /\ req[r].amount.n = before => c \notin DOMAIN users'[u].holdings]_vars

\* a user has sold the whole holding bought before: the key is gone
C2_Witness ==
  \E u \in DOMAIN users :
    /\ Len(txlog) = 2
    /\ txlog[1].type = "buy" /\ txlog[1].userId = u
    /\ txlog[2].type = "sell" /\ txlog[2].userId = u
    /\ txlog[2].coinId = txlog[1].coinId /\ txlog[2].amount = txlog[1].amount
    /\ DOMAIN users[u].holdings = {}

\* C3: every entry of every stored user's holdings is strictly positive.
C3_HoldingsPositive ==
  \A u \in DOMAIN users :
    \A c \in DOMAIN users[u].holdings : users[u].holdings[c] > 0

\* a user sold a part of a holding and keeps the rest
C3_Witness ==
  \E u \in DOMAIN users :
    /\ \E i \in RecordsOf(u) : txlog[i].type = "sell"
    /\ \E c \in DOMAIN users[u].holdings : users[u].holdings[c] = 150

\* C4: every stored balance is non-negative.
C4_BalanceNonNegative == \A u \in DOMAIN users : users[u].balance >= 0

\* C5: every stored coin price is strictly positive.
C5_PricePositive == \A c \in Symbols : coins[c].price > 0

\* C6: a rejected transaction request answers an error and leaves the stored
\* users, coins and transaction log as they were: no step of a request other
\* than its commit changes them, and a rejected request has no commit.
C6_RejectedChangesNothing ==
  [][\A r \in Slots :
       /\ (Steps(r) /\ ~Commits(r)) => StoreUnchanged
       /\ Rejects(r) => /\ req'[r].status = 400
                        /\ req'[r].message \notin {"", "Transaction successful"}]_vars

\* a buy was rejected for insufficient funds after an earlier trade
C6_Witness ==
  \E r \in Slots :
    /\ req[r].pc = "done" /\ req[r].status = 400
    /\ req[r].message = "Insufficient funds"
    /\ Len(txlog) = 1

\* C7: the coin price, the user and the Transaction record of a trade become
\* visible together or not at all: each user has as many records as trade
\* effects applied, and a request that fails after its coin write leaves the
\* stored coin at the price it had before that write.
C7_Counts == \A u \in UserIds : Cardinality(RecordsOf(u)) = applied[u]

C7_Atomic ==
  /\ []C7_Counts
  /\ [][\A r \in Slots :
          (Rejects(r) /\ req[r].pc \in {"coinSaved", "saved"}) =>
            /\ StoreUnchanged
            /\ coins'[req[r].coinId].price = req[r].snapPrice]_vars

\* a request was aborted after its coin write, while another one committed
C7_Witness ==
  \E r \in Slots :
    /\ req[r].pc = "done" /\ req[r].status = 400 /\ req[r].at = "coinSaved"
    /\ Len(txlog) = 1

\* C8: of concurrent sells of one user whose holding is enough for exactly
\* one of them, one succeeds, the others fail with the insufficient-holdings
\* error, and the holding is debited once.
C8_ConcurrentSells ==
  [][\A r1, r2 \in Slots :
       (/\ r1 # r2 /\ r1 \in InFlight /\ r2 \in InFlight
        /\ req[r1].type = "sell" /\ req[r2].type = "sell"
        /\ req[r1].userId = req[r2].userId
        /\ req[r1].coinId = req[r2].coinId
        /\ req[r1].amount = req[r2].amount
        /\ Holding(users[req[r1].userId].holdings, req[r1].coinId)
             = req[r1].amount.n)
       => /\ Rejects(r2) => req'[r2].message = "Insufficient coin balance"
          /\ Commits(r2) =>
               req[r2].coinId \notin DOMAIN users'[req[r2].userId].holdings]_vars

\* C9: the stored users and coin prices are those of the successful
\* transactions applied one after another in commit order (a simulator write
\* counting as an assignment of the price between them).
C9_Serial ==
  /\ serial.ok
  /\ DOMAIN serial.users = DOMAIN users
  /\ \A u \in DOMAIN users : users[u] = serial.users[u]
  /\ \A c \in Symbols : coins[c].price = serial.price[c]

\* two handlers that ran at the same time have both committed
C9_Witness ==
  /\ \A r \in Slots : req[r].pc = "done" /\ req[r].status = 200
  /\ Len(txlog) = 2

\* C10: a simulator write on a coin does not overwrite a price impact
\* committed since the simulator read the coin: the price it stores is a
\* drift of the price stored just before.
C10_TickKeepsImpact ==
  [][\A c \in Symbols :
       coins'[c].priceHistory # coins[c].priceHistory =>
         \E k \in Drifts : coins'[c].price = DriftedPrice(coins[c].price, k)]_vars

\* C11: a successful buy of amount A on a coin at price P leaves the price at
\* P*(1 + 0.00001*A), above P; a successful sell leaves it at
\* P*(1 - 0.00001*A), below P.
C11_PriceImpact ==
  [][\A r \in Slots :
       Commits(r) =>
         LET c == req[r].coinId
             P == coins[c].price
         IN  /\ coins'[c].price = ImpactedPrice(P, req[r].type, req[r].amount)
             /\ req[r].type = "buy" => coins'[c].price > P
             /\ req[r].type = "sell" => coins'[c].price < P]_vars

\* the step in which the running callback j saves the coin c
TickSaves(j, c) ==
  /\ CoinOrder[tick[j].i] = c
  /\ coins'[c].v = coins[c].v + 1
  /\ tick' = IF tick[j].i = Len(CoinOrder) THEN TickEnd(j)
             ELSE [tick EXCEPT ![j].i = @ + 1]

\* the step in which the save of the running callback j is rejected
TickFails(j) == tick' = TickEnd(j) /\ UNCHANGED coins

\* C12: the price history of every stored coin has at most HistoryWindow
\* entries.
C12_HistoryBounded ==
  \A c \in Symbols : Len(coins[c].priceHistory) <= HistoryWindow

\* C13: a tick on a coin loaded with a history of HistoryWindow entries
\* stores that history without its oldest entry and with the new price at the
\* end (HistoryWindow entries again), and a priceChange24h that is the
\* percentage from the oldest remaining entry to the new price; the stored
\* history it replaces is the one it loaded.
C13_WindowTick ==
  [][\A j \in 1..Len(tick) : \A c \in Symbols :
       (TickSaves(j, c) /\ Len(tick[j].docs[c].priceHistory) = HistoryWindow)
       => LET old == tick[j].docs[c].priceHistory
              new == coins'[c].priceHistory
          IN  /\ coins[c].priceHistory = old
              /\ Len(new) = HistoryWindow
              /\ \A i \in 1..(HistoryWindow - 1) : new[i] = old[i + 1]
              /\ new[HistoryWindow] = coins'[c].price
              /\ \E k \in Drifts :
                    coins'[c].price = DriftedPrice(tick[j].docs[c].price, k)
              /\ coins'[c].priceChange24h =
                    PriceChange24h(coins'[c].price, old[2])]_vars

\* a tick has saved MNT, whose history filled the window: the oldest entry
\* is the one that was second
C13_Witness ==
  /\ coins["MNT"].price # InitPrice["MNT"]
  /\ Len(coins["MNT"].priceHistory) = HistoryWindow
  /\ coins["MNT"].priceHistory[1] = InitPrice["MNT"] - (HistoryWindow - 2)
  /\ coins["MNT"].priceHistory[HistoryWindow] = coins["MNT"].price

\* C14: a rejected save of one coin does not end the tick: the callback goes
\* on with the next coin of the list.
C14_TickContinues ==
  [][\A j \in 1..Len(tick) :
       (TickFails(j) /\ tick[j].i < Len(CoinOrder)) =>
         /\ Len(tick') = Len(tick)
         /\ tick'[j].i = tick[j].i + 1]_vars

\* the events among what a step sent
Events(out) == {i \in 1..Len(out) : out[i].kind \in {"priceUpdate", "userUpdate"}}

\* C15: an event caused by a transaction is emitted only once the
\* transaction has committed: the step that emits it for handler r is the
\* commit of r.
C15_EventsAfterCommit ==
  [][\A i \in Events(sent') : sent'[i].by # 0 => Commits(sent'[i].by)]_vars

\* C16: no user object the server sends out (the userUpdate payload, the
\* user of the transaction response, the body of GET /api/user) has a
\* password field.
C16_NoPasswordSent ==
  \A i \in 1..Len(sent) :
    "user" \in DOMAIN sent[i] => "password" \notin DOMAIN sent[i].user

\* C17: a transaction request is accepted only with an amount that is a
\* number above 0, a type buy or sell, an existing coin and an existing user;
\* a request that fails one of these is answered with an error at once and
\* changes nothing in the store.
C17_Validation ==
  [][\A r \in Slots :
       /\ Commits(r) =>
            /\ ~req[r].amount.str /\ req[r].amount.n > 0
            /\ req[r].type \in {"buy", "sell"}
            /\ req[r].coinId \in Symbols
            /\ req[r].userId \in DOMAIN users
       /\ (BeginsIn(r) /\ req'[r].pc = "done") =>
            req'[r].status = 400 /\ StoreUnchanged]_vars

\* C18: the price of a Transaction record is the price P at which the total
\* of the trade was computed: amount times the recorded price is the change
\* of the user's balance.
C18_RecordPrice ==
  [][\A r \in Slots :
       Commits(r) =>
         LET rec == txlog'[Len(txlog')]
             u == req[r].userId
             change == users'[u].balance - users[u].balance
         IN  /\ rec.price = req[r].snapPrice
             /\ rec.amount * rec.price =
                  IF req[r].type = "buy" THEN -change ELSE change]_vars

\* C19: every step leaves the transaction log as it is or appends one record
\* to it, and a step that appends is the commit of a trade, whose record it
\* appends.
C19_AppendOnly ==
  [][\/ txlog' = txlog
     \/ /\ Len(txlog') = Len(txlog) + 1
        /\ SubSeq(txlog', 1, Len(txlog)) = txlog
        /\ \E r \in Slots :
             /\ Commits(r)
             /\ txlog'[Len(txlog')].userId = req[r].userId
             /\ txlog'[Len(txlog')].coinId = req[r].coinId
             /\ txlog'[Len(txlog')].type = req[r].type
             /\ txlog'[Len(txlog')].amount = Num(req[r].amount)]_vars

\* a second trade was committed after a first one, and a tick has saved a
\* coin
C19_Witness ==
  /\ Len(txlog) = 2
  /\ \E c \in Symbols : coins[c].v > 0
  /\ \E r \in Slots : req[r].pc = "done" /\ req[r].status = 200

\* C20: no two stored users have the same username.
C20_UniqueUsernames ==
  \A u, v \in DOMAIN users :
    u # v => users[u].username # users[v].username

\* the step is the answer to GET /api/transactions of user u
Lists(u) == GetTransactions(u)

\* the committed records of user u
Own(u) == {i \in 1..Len(txlog) : txlog[i].userId = u}

\* C21: GET /transactions answers with records of the requesting user only,
\* with min(5, number of the user's records) distinct records, none of the
\* records left out is newer than one returned, and the list is ordered
\* newest first.
C21_RecentTransactions ==
  [][\A u \in UserIds : Lists(u) =>
       LET L == sent'[1].list
           I == 1..Len(L)
       IN  /\ sent'[1].status = 200
           /\ \A i \in I : \E j \in Own(u) : txlog[j] = L[i]
           /\ Len(L) = IF Cardinality(Own(u)) < PageSize
                       THEN Cardinality(Own(u)) ELSE PageSize
           /\ \A i, k \in I : i # k => L[i] # L[k]
           /\ \A i, k \in I : i < k => L[i].timestamp >= L[k].timestamp
           /\ \A j \in Own(u) : (\A i \in I : L[i] # txlog[j]) =>
                 \A i \in I : L[i].timestamp >= txlog[j].timestamp]_vars

\* a user with more records than a page and records of another user in the
\* log has been answered with a full page
C21_Witness ==
  /\ Len(sent) = 1 /\ "list" \in DOMAIN sent[1]
  /\ Len(sent[1].list) = PageSize
  /\ \E u \in UserIds :
        /\ sent[1].list[1].userId = u
        /\ Cardinality(Own(u)) > PageSize
        /\ \E i \in 1..Len(txlog) : txlog[i].userId # u

\* the number of events the socket handlers of client k handle in the step
Received(k) == clients'[k].nrx - clients[k].nrx

\* C22: an event emitted in a step is handled by every client connected when
\* the step is taken, whichever user it concerns, and by no other client: a
\* client that is not connected, or connects in a later step, handles
\* nothing of it.
C22_Broadcast ==
  [][\A k \in Clients :
       IF clients[k].connected
       THEN /\ Received(k) = Cardinality(Events(sent'))
            /\ \A i \in Events(sent') :
                  (\A j \in Events(sent') : j <= i) => clients'[k].last = sent'[i]
       ELSE Received(k) = 0]_vars

\* a connected client has handled the userUpdate of another user's
\* transaction, and a client that connected after the events has handled
\* none
C22_Witness ==
  \E k, l \in Clients :
    /\ clients[k].connected /\ clients[k].nrx >= 2
    /\ clients[k].last.kind = "userUpdate"
    /\ clients[k].last.user._id # clients[k].me
    /\ clients[l].connected /\ clients[l].nrx = 0

\* the statements after which handler r has emitted its priceUpdate
AfterEmit == {"coinSaved", "saved"}

\* C23: the commit of a transaction emits exactly one userUpdate, which
\* carries the committed balance and holdings of the user, the response
\* carries the same user, and the price the handler has emitted in its
\* priceUpdate is the committed price of the coin; a transaction that ends
\* with an error has emitted no event.
C23_TransactionEvents ==
  [][\A r \in Slots :
       /\ Commits(r) =>
            LET u == req[r].userId
                c == req[r].coinId
            IN  /\ Cardinality(Events(sent')) = 1
                /\ \A i \in 1..Len(sent') :
                      /\ sent'[i].kind \in {"userUpdate", "response"}
                      /\ sent'[i].user._id = u
                      /\ sent'[i].user.balance = users'[u].balance
                      /\ sent'[i].user.holdings = users'[u].holdings
                /\ req[r].price = coins'[c].price
       /\ Rejects(r) => req'[r].at \notin AfterEmit]_vars

\* C24: the stored priceChange24h of a coin with a non-empty price history
\* is the change of its stored price against the oldest entry of the
\* history, in percent.
C24_ChangeDerived ==
  \A c \in Symbols :
    Len(coins[c].priceHistory) > 0 =>
      coins[c].priceChange24h =
        PriceChange24h(coins[c].price, coins[c].priceHistory[1])

\* C25: a step changes the stored balance or holdings of a user only when it
\* is the commit of a transaction of that user; every user stays stored.
C25_UsersFrame ==
  [][\A u \in DOMAIN users :
       /\ u \in DOMAIN users'
       /\ (users'[u].balance # users[u].balance
            \/ users'[u].holdings # users[u].holdings) =>
             \E r \in Slots : Commits(r) /\ req[r].userId = u]_vars

\* one user has traded, the other has not, and a request was just answered
\* 401 or 403 by authenticateToken
C25_Witness ==
  /\ Len(sent) = 1 /\ sent[1].kind = "response"
  /\ sent[1].status \in {401, 403}
  /\ "message" \in DOMAIN sent[1]
  /\ sent[1].message \in {"No token provided", "Invalid token"}
  /\ \E u, w \in DOMAIN users :
        /\ users[u].balance < StartBalance
        /\ users[w].balance = StartBalance /\ users[w].holdings = NoHoldings

\* C26: the save of a coin by a tick takes the stored price from p to a
\* price between 0.997*p and 1.003*p (up to the price resolution) and adds
\* one entry holding the new price at the end of the stored history, the
\* oldest entry leaving when the window is full.
C26_TickDrift ==
  [][\A j \in 1..Len(tick), c \in Symbols :
       TickSaves(j, c) =>
         LET p == coins[c].price
             q == coins'[c].price
             h == Append(coins[c].priceHistory, q)
         IN  /\ MulDiv(p, DriftDenom - MaxDrift, DriftDenom) <= q
             /\ q <= MulDiv(p, DriftDenom + MaxDrift, DriftDenom) + 1
             /\ coins'[c].priceHistory \in {h, Tail(h)}]_vars

\* C27: when a connected client handles a priceUpdate, the coin of its list
\* with the id of the payload takes price and priceChange24h from the
\* payload and keeps its name, symbol and supply; the other coins of the
\* list stay as they are.
C27_ClientMerge ==
  [][\A k \in Clients, i \in Events(sent') :
       (clients[k].connected /\ sent'[i].kind = "priceUpdate") =>
         \A c \in DOMAIN clients[k].coins :
           LET old == clients[k].coins[c]
               new == clients'[k].coins[c]
           IN  IF old._id = sent'[i]._id
               THEN /\ new.price = sent'[i].price
                    /\ new.priceChange24h = sent'[i].priceChange24h
                    /\ \A f \in {"name", "symbol", "supply"} :
                          f \in DOMAIN new /\ new[f] = old[f]
               ELSE new = old]_vars

\* the messages of the errors thrown by the store
StoreErrors == {"WriteConflict"}

\* C28: a transaction request that ends with an error is answered 500 when
\* the error was thrown by the store, and 400 when it was thrown by the
\* handler's validation or business rules.
C28_StoreFailure500 ==
  [][\A r \in Slots :
       Rejects(r) =>
         req'[r].status = IF req'[r].message \in StoreErrors THEN 500
                          ELSE 400]_vars

\* C29: the user record a connected client holds, once it holds one, has the
\* id of the user the client is logged in as.
C29_OwnUserShown ==
  \A k \in Clients :
    (clients[k].connected /\ clients[k].user # NullUser) =>
      clients[k].user._id = clients[k].me

\* C30: when a tick saves a coin, no other tick has written the coin since
\* this tick read it: the document it read is the stored one, so the price
\* it stores is a drift of the result of the previous tick.
C30_TicksInOrder ==
  [][\A j \in 1..Len(tick), c \in Symbols :
       TickSaves(j, c) =>
         /\ tick[j].docs[c] = coins[c]
         /\ \E k \in Drifts :
               coins'[c].price = DriftedPrice(coins[c].price, k)]_vars

\* the step in which handler r answers its request
Answers(r) == req'[r].pc = "done" /\ (BeginsIn(r) \/ req[r].pc # "done")

\* the step applies the writes of handler r's unit of work to the store
Persists(r) ==
  LET u == req[r].userId
      c == req[r].coinId
  IN  /\ req[r].pc = "saved"
      /\ txlog' = Append(txlog, TransactionRecord(req[r]))
      /\ coins'[c].price = req[r].price
      /\ users'[u].balance = req[r].user.balance

\* C31: a transaction request that has arrived and is not yet answered is
\* answered in the end; the answer is 200 or 400, 200 exactly when the step
\* that answers applies the writes of the unit of work, and 400 exactly when
\* it leaves the store as it was.
C31_OneResponse ==
  /\ \A r \in Slots :
        (req[r].pc \notin {"idle", "done"}) ~> (req[r].pc = "done")
  /\ [][\A r \in Slots :
          Answers(r) =>
            /\ req'[r].status \in {200, 400}
            /\ req'[r].status = 200 <=> Persists(r)
            /\ req'[r].status = 400 <=> StoreUnchanged]_vars

====
